---- MODULE Spec2Model ----
(***************************************************************************)
(* Model of the patent search pipeline: run_patent_search (main.py),       *)
(* PatentSearcher.search_patents (patent_search.py), TitleVerifier         *)
(* (title_verification.py) and Config (config.py).                         *)
(*                                                                         *)
(* Strings are sequences of one-character strings, so that strip, lower,   *)
(* split, replace, the title heuristics and the similarity ratio are       *)
(* computed the way the Python code computes them.                         *)
(***************************************************************************)
EXTENDS Integers, Sequences, FiniteSets, TLC

\* ------------------------------------------------------------------ bounds
\* Longest candidate list the LLM answer may carry in the model.
MaxCandidates == 2

\* ------------------------------------------------------- program constants
MAX_RETRIES == 3
REQUEST_DELAY == 2
RETRY_SLEEP == 1
\* SIMILARITY_THRESHOLD = 0.8, kept as the exact fraction 8/10.
SIMILARITY_THRESHOLD_NUM == 8
SIMILARITY_THRESHOLD_DEN == 10
MAX_TITLE_LEN == 300
MAX_SENTENCE_MARKS == 2
HTTP_NOT_FOUND == 404

\* ----------------------------------------------------------------- strings
UpperLetters ==
  <<"A","B","C","D","E","F","G","H","I","J","K","L","M",
    "N","O","P","Q","R","S","T","U","V","W","X","Y","Z">>
LowerLetters ==
  <<"a","b","c","d","e","f","g","h","i","j","k","l","m",
    "n","o","p","q","r","s","t","u","v","w","x","y","z">>
Whitespace == {" ", "\t", "\n"}

\* str.lower() on one character
LowerChar(c) ==
  IF \E k \in 1..26 : UpperLetters[k] = c
  THEN LowerLetters[CHOOSE k \in 1..26 : UpperLetters[k] = c]
  ELSE c

\* str.lower()
lower(s) == [k \in 1..Len(s) |-> LowerChar(s[k])]

\* str.strip(): drop leading and trailing whitespace
strip(s) ==
  LET keep == {k \in 1..Len(s) : s[k] \notin Whitespace}
  IN IF keep = {} THEN <<>>
     ELSE LET lo == CHOOSE k \in keep : \A m \in 1..(k - 1) : s[m] \in Whitespace
              hi == CHOOSE k \in keep : \A m \in (k + 1)..Len(s) : s[m] \in Whitespace
          IN SubSeq(s, lo, hi)

\* s[pos : pos+len(pat)] == pat
OccursAt(s, pat, pos) ==
  /\ pos >= 1
  /\ pos + Len(pat) - 1 <= Len(s)
  /\ \A k \in 1..Len(pat) : s[pos + k - 1] = pat[k]

\* str.startswith(prefix)
startswith(s, prefix) == OccursAt(s, prefix, 1)

\* s.split(sep)[0]: the text before the first occurrence of sep
SplitFirst(s, sep) ==
  LET hits == {p \in 1..Len(s) : OccursAt(s, sep, p)}
  IN IF hits = {} THEN s
     ELSE SubSeq(s, 1, (CHOOSE p \in hits : \A q \in hits : p <= q) - 1)

\* s.replace(old, ""): drop every non-overlapping occurrence, left to right
RECURSIVE RemoveAll(_, _)
RemoveAll(s, old) ==
  IF s = <<>> \/ old = <<>> THEN s
  ELSE IF OccursAt(s, old, 1)
       THEN RemoveAll(SubSeq(s, Len(old) + 1, Len(s)), old)
       ELSE <<s[1]>> \o RemoveAll(SubSeq(s, 2, Len(s)), old)

\* str.count(c) summed over a set of characters
CountChars(s, cs) == Cardinality({k \in 1..Len(s) : s[k] \in cs})

\* ' - Google Patents'
GOOGLE_SUFFIX ==
  <<" ","-"," ","G","o","o","g","l","e"," ","P","a","t","e","n","t","s">>
\* ' - ' of f"{patent_id} - "
ID_SEPARATOR == <<" ","-"," ">>
\* 'abstract'
ABSTRACT_WORD == <<"a","b","s","t","r","a","c","t">>
SentenceMarks == {".", "!", "?"}

\* ------------------------------------------------------- _is_valid_title
\* The four tests are independent; the length test stands first here so that
\* an over-long text is rejected before it is lowercased.
_is_valid_title(text) ==
  /\ text # <<>>
  /\ ~(Len(text) > MAX_TITLE_LEN)
  /\ ~startswith(lower(text), ABSTRACT_WORD)
  /\ ~(CountChars(text, SentenceMarks) > MAX_SENTENCE_MARKS)

\* --------------------------------------------------- _calculate_similarity
\* Length of the common run of a[i..ahi] and b[j..bhi] starting at i, j.
RECURSIVE RunLen(_, _, _, _, _, _)
RunLen(a, b, i, j, ahi, bhi) ==
  IF i <= ahi /\ j <= bhi /\ a[i] = b[j]
  THEN 1 + RunLen(a, b, i + 1, j + 1, ahi, bhi)
  ELSE 0

\* SequenceMatcher.find_longest_match without junk: the longest block, of
\* those the one starting earliest in a, of those the one earliest in b.
\* Positions are 1-based and inclusive; <<alo, blo, 0>> when nothing matches.
find_longest_match(a, b, alo, ahi, blo, bhi) ==
  LET blocks == {<<i, j>> \in (alo..ahi) \X (blo..bhi) : a[i] = b[j]}
      size(p) == RunLen(a, b, p[1], p[2], ahi, bhi)
  IN IF blocks = {} THEN <<alo, blo, 0>>
     ELSE LET best == CHOOSE p \in blocks :
                        \A q \in blocks :
                          \/ size(p) > size(q)
                          \/ /\ size(p) = size(q)
                             /\ \/ p[1] < q[1]
                                \/ (p[1] = q[1] /\ p[2] <= q[2])
          IN <<best[1], best[2], size(best)>>

\* Sum of the sizes of SequenceMatcher.get_matching_blocks: the longest block,
\* then the same to its left and to its right.
RECURSIVE MatchCount(_, _, _, _, _, _)
MatchCount(a, b, alo, ahi, blo, bhi) ==
  IF alo > ahi \/ blo > bhi THEN 0
  ELSE LET m == find_longest_match(a, b, alo, ahi, blo, bhi)
       IN IF m[3] = 0 THEN 0
          ELSE m[3]
               + MatchCount(a, b, alo, m[1] - 1, blo, m[2] - 1)
               + MatchCount(a, b, m[1] + m[3], ahi, m[2] + m[3], bhi)

\* SequenceMatcher.ratio() as the exact fraction <<2*matches, total length>>,
\* <<1, 1>> (1.0) when both strings are empty.
ratio(a, b) ==
  IF Len(a) + Len(b) = 0 THEN <<1, 1>>
  ELSE <<2 * MatchCount(a, b, 1, Len(a), 1, Len(b)), Len(a) + Len(b)>>

_calculate_similarity(title1, title2) ==
  ratio(strip(lower(title1)), strip(lower(title2)))

\* similarity >= Config.SIMILARITY_THRESHOLD
MeetsThreshold(similarity) ==
  similarity[1] * SIMILARITY_THRESHOLD_DEN >= SIMILARITY_THRESHOLD_NUM * similarity[2]

\* ------------------------------------------------------------ sample data
\* Patent identifiers the LLM answer may name.
US1 == <<"U","1">>
US2 == <<"U","2">>

\* CandidatePatent records of the LLM answer: {"patent_id","title","relevancy"}.
Candidate(id, title) == [patent_id |-> id, title |-> title, relevancy |-> "High"]
Candidates ==
  { Candidate(US1, <<" ","x","b"," ">>),
    Candidate(US2, <<"a","b","c">>) }

\* Every candidate list of length 0..MaxCandidates.
RECURSIVE ListsUpTo(_)
ListsUpTo(n) ==
  IF n = 0 THEN {<<>>}
  ELSE LET shorter == ListsUpTo(n - 1)
       IN shorter \cup {Append(l, c) : l \in {m \in shorter : Len(m) = n - 1}, c \in Candidates}
CandidateLists == ListsUpTo(MaxCandidates)

\* Texts a page may carry in <span itemprop="title">.
SpanTexts ==
  { <<" ","A","b"," ">>,                          \* a plain title, padded
    <<"a","b","c">>,                              \* another plain title
    <<"A","B","S","T","R","A","C","T"," ","x">>,  \* an abstract
    <<" ">>,                                      \* blank
    [k \in 1..(MAX_TITLE_LEN + 1) |-> "x"],       \* too long
    <<"a",".","b","!","c","?">> }                 \* three sentences

\* Texts a page may carry in <h1 itemprop="pageTitle">.
H1Texts ==
  { US1 \o ID_SEPARATOR \o <<"A","b">> \o GOOGLE_SUFFIX,
    <<"a","b","c">> \o GOOGLE_SUFFIX,
    US2 \o ID_SEPARATOR \o <<"A","b","s","t","r","a","c","t">> \o GOOGLE_SUFFIX }

\* A parsed 200 response: which of the two elements it has, and their text.
Pages ==
  [has_span : {TRUE}, span : SpanTexts, has_h1 : {TRUE}, h1 : H1Texts]
  \cup [has_span : {TRUE}, span : SpanTexts, has_h1 : {FALSE}, h1 : {<<>>}]
  \cup [has_span : {FALSE}, span : {<<>>}, has_h1 : {TRUE}, h1 : H1Texts]
  \cup [has_span : {FALSE}, span : {<<>>}, has_h1 : {FALSE}, h1 : {<<>>}]
NoPage == [has_span |-> FALSE, span |-> <<>>, has_h1 |-> FALSE, h1 |-> <<>>]

\* Status of a failed GET other than 404 : an HTTP error status, or 0 for an
\* exception without a response (timeout, connection error, parse error).
ErrorStatuses == {500, 0}

\* Optional[str]: None, or a title
None == [found |-> FALSE, text |-> <<>>]
Some(text) == [found |-> TRUE, text |-> text]

\* ------------------------------------------------------ result file (Store)
AbsentFile == [state |-> "absent", verified_patents |-> <<>>]
CorruptFile == [state |-> "corrupt", verified_patents |-> <<>>]
JsonFile(entries) == [state |-> "json", verified_patents |-> entries]

\* A record an earlier run left in the file.
OldRecord ==
  [patent_id |-> US1, title |-> <<"o","l","d">>, relevancy |-> "High",
   similarity_score |-> <<1, 2>>, verified |-> FALSE]
InitFiles == {AbsentFile, JsonFile(<<OldRecord>>)}

\* Ways the file system may fail one _save_verified_patent call:
\* reading the file (other than "no such file"), opening it for writing,
\* or writing it out after it was truncated.
StoreFaults == {"none", "read", "open", "dump"}

\* {p.get('patent_id') for p in data.get('verified_patents', [])}
existing_ids(entries) == {entries[k].patent_id : k \in 1..Len(entries)}

\* json.load of the file, or the fresh {"compound", "verified_patents": []}
LoadData(f) == IF f.state = "json" THEN f.verified_patents ELSE <<>>

\* The save without the "not in existing_ids" test: every record is appended.
SaveWithoutDedup(f, patent, fault, mkdir_ok) ==
  IF ~mkdir_ok \/ fault \in {"read", "open"} THEN f
  ELSE IF fault = "dump" THEN CorruptFile
  ELSE JsonFile(Append(LoadData(f), patent))

\* _save_verified_patent: the file after the call.
_save_verified_patent(f, patent, fault, mkdir_ok) ==
  IF ~mkdir_ok THEN f
  ELSE IF fault = "read" THEN f
  ELSE LET data == LoadData(f)
       IN IF patent.patent_id \in existing_ids(data) THEN f
          ELSE IF fault = "open" THEN f
          ELSE IF fault = "dump" THEN CorruptFile
          ELSE JsonFile(Append(data, patent))

\* Whether the call ran into the "except Exception" branch.
SaveRaised(f, patent, fault, mkdir_ok) ==
  \/ ~mkdir_ok
  \/ fault = "read"
  \/ /\ patent.patent_id \notin existing_ids(LoadData(f))
     /\ fault \in {"open", "dump"}

\* ------------------------------------------------ title extraction (200 OK)
\* get_text(strip=True) of the span
SpanTitle(page) == strip(page.span)

\* full_title.split(' - Google Patents')[0].replace(f"{patent_id} - ", "").strip()
H1Title(page, patent_id) ==
  strip(RemoveAll(SplitFirst(strip(page.h1), GOOGLE_SUFFIX), patent_id \o ID_SEPARATOR))

\* Whether soup.find('h1', itemprop='pageTitle') is reached.
H1Consulted(page) == ~(page.has_span /\ _is_valid_title(SpanTitle(page)))

\* The extraction giving up as soon as the span's text is implausible.
ExtractWithoutFallthrough(page, patent_id) ==
  IF page.has_span
  THEN IF _is_valid_title(SpanTitle(page)) THEN Some(SpanTitle(page)) ELSE None
  ELSE IF page.has_h1 /\ _is_valid_title(H1Title(page, patent_id))
       THEN Some(H1Title(page, patent_id))
       ELSE None

\* What _get_patent_title returns for a parsed page.
ExtractTitle(page, patent_id) ==
  IF page.has_span /\ _is_valid_title(SpanTitle(page))
  THEN Some(SpanTitle(page))
  ELSE IF page.has_h1 /\ _is_valid_title(H1Title(page, patent_id))
       THEN Some(H1Title(page, patent_id))
       ELSE None

\* --------------------------------------------------------- verified record
\* The record verify_patents builds. The sample titles are ASCII, for which
\* _contains_non_english is False and no language_note key is added.
VerifiedPatent(patent, actual) ==
  LET similarity == _calculate_similarity(patent.title, actual)
  IN [patent_id |-> patent.patent_id,
      title |-> actual,
      relevancy |-> patent.relevancy,
      similarity_score |-> similarity,
      verified |-> MeetsThreshold(similarity)]

\* ------------------------------------------------------- run result records
NoResult ==
  [patents_found |-> 0, patents_verified |-> 0, verified_patents |-> <<>>,
   success |-> FALSE, extra |-> "unset"]
NoPatentsResult ==
  [patents_found |-> 0, patents_verified |-> 0, verified_patents |-> <<>>,
   success |-> FALSE, extra |-> "message"]
ErrorResult ==
  [patents_found |-> 0, patents_verified |-> 0, verified_patents |-> <<>>,
   success |-> FALSE, extra |-> "error"]
SuccessResult(found, verified) ==
  [patents_found |-> Len(found), patents_verified |-> Len(verified),
   verified_patents |-> verified, success |-> TRUE, extra |-> "output_file"]

\* ------------------------------------------------------------------- state
VARIABLES
  api_key,          \* Config.OPENAI_API_KEY is non-empty
  can_make_dir,     \* os.makedirs of the compound's directory succeeds
  file,             \* results/<compound>/verified_patents.json
  pc,               \* position in main -> run_patent_search -> verify_patents
  patents,          \* run_patent_search: the Searcher's candidate list
  i,                \* verify_patents: 1-based index of the candidate at hand
  attempt,          \* _get_patent_title: the retry loop's counter (0-based)
  response,         \* _get_patent_title: status and parsed page of the last GET
  actual_title,     \* verify_patents: what _get_patent_title returned
  verified_patents, \* verify_patents: the in-memory list
  result,           \* what run_patent_search returned
  exit_code,        \* main: the process exit status, -1 while running
  llm_calls,        \* history: client.responses.create calls so far
  gets,             \* history: GETs issued by the fetch at hand
  retry_sleeps,     \* history: time slept in time.sleep(1) by the fetch at hand
  h1_consulted,     \* history: the fetch at hand looked for the h1 element
  fetched,          \* history: per processed candidate, what its fetch returned
  save_calls,       \* history: the records handed to _save_verified_patent
  last_fault,       \* history: what made the save of the candidate at hand
                    \* end in "Failed to save patent", "none" if nothing did
  store_failed,     \* history: some save of the run ended that way
  paced             \* history: time slept since the latest fetch returned

vars ==
  <<api_key, can_make_dir, file, pc, patents, i, attempt, response,
    actual_title, verified_patents, result, exit_code, llm_calls, gets,
    retry_sleeps, h1_consulted, fetched, save_calls, last_fault,
    store_failed, paced>>

NoResponse == [status |-> -1, page |-> NoPage]

env == <<api_key, can_make_dir>>
fetch_vars == <<attempt, response, actual_title, gets, retry_sleeps, h1_consulted>>
store_vars == <<file, save_calls, last_fault, store_failed>>

\* The directory can only fail to be created when it does not exist yet, and
\* then it holds no result file.
Init ==
  /\ api_key \in BOOLEAN
  /\ can_make_dir \in BOOLEAN
  /\ file \in InitFiles
  /\ (~can_make_dir => file = AbsentFile)
  /\ pc = "validate"
  /\ patents = <<>>
  /\ i = 0
  /\ attempt = 0
  /\ response = NoResponse
  /\ actual_title = None
  /\ verified_patents = <<>>
  /\ result = NoResult
  /\ exit_code = -1
  /\ llm_calls = 0
  /\ gets = 0
  /\ retry_sleeps = 0
  /\ h1_consulted = FALSE
  /\ fetched = <<>>
  /\ save_calls = <<>>
  /\ last_fault = "none"
  /\ store_failed = FALSE
  /\ paced = 0

\* ------------------------------------------------------- run_patent_search
\* The configuration error escaping run_patent_search instead of being caught.
ValidateRaises ==
  /\ pc = "validate"
  /\ ~api_key
  /\ pc' = "raised"
  /\ UNCHANGED <<env, result, patents, i, verified_patents, exit_code,
                 llm_calls, fetched, paced, fetch_vars, store_vars>>

\* Config.validate() raises ValueError: caught by "except Exception".
ValidateFails ==
  /\ pc = "validate"
  /\ ~api_key
  /\ result' = ErrorResult
  /\ pc' = "returned"
  /\ UNCHANGED <<env, patents, i, verified_patents, exit_code, llm_calls,
                 fetched, paced, fetch_vars, store_vars>>

ValidateOk ==
  /\ pc = "validate"
  /\ api_key
  /\ pc' = "search"
  /\ UNCHANGED <<env, patents, i, verified_patents, result, exit_code,
                 llm_calls, fetched, paced, fetch_vars, store_vars>>

\* The run going on to verification whatever the Searcher returned.
AfterSearchUnchecked(found) ==
  /\ patents' = found
  /\ result' = result
  /\ pc' = "loop"
  /\ i' = 1

\* What run_patent_search does with the Searcher's list.
AfterSearch(found) ==
  /\ patents' = found
  /\ IF found = <<>>
     THEN /\ result' = NoPatentsResult
          /\ pc' = "returned"
          /\ i' = i
     ELSE /\ result' = result
          /\ pc' = "loop"
          /\ i' = 1

\* search_patents: the one LLM call raises, or its text is not JSON: [].
SearchFails ==
  /\ pc = "search"
  /\ llm_calls' = llm_calls + 1
  /\ AfterSearch(<<>>)
  /\ UNCHANGED <<env, verified_patents, exit_code, fetched, paced,
                 fetch_vars, store_vars>>

\* search_patents: the answer parses; its "patents" list is returned.
SearchReturns ==
  /\ pc = "search"
  /\ llm_calls' = llm_calls + 1
  /\ \E found \in CandidateLists : AfterSearch(found)
  /\ UNCHANGED <<env, verified_patents, exit_code, fetched, paced,
                 fetch_vars, store_vars>>

\* ---------------------------------------------------------- verify_patents
\* for i, patent in enumerate(patents): the next candidate's fetch begins.
NextCandidate ==
  /\ pc = "loop"
  /\ i <= Len(patents)
  /\ pc' = "get"
  /\ last_fault' = "none"
  /\ UNCHANGED <<env, file, patents, i, verified_patents, result, exit_code,
                 llm_calls, fetched, save_calls, store_failed, paced,
                 fetch_vars>>

\* The loop is over: verify_patents returns its list.
LoopDone ==
  /\ pc = "loop"
  /\ i > Len(patents)
  /\ pc' = "finish"
  /\ last_fault' = "none"
  /\ UNCHANGED <<env, file, patents, i, verified_patents, result, exit_code,
                 llm_calls, fetched, save_calls, store_failed, paced,
                 fetch_vars>>

\* -------------------------------------------------------- _get_patent_title
\* _get_patent_title returns t to verify_patents.
Return(t) ==
  /\ actual_title' = t
  /\ pc' = "fetched"
  /\ paced' = 0
  /\ attempt' = attempt

\* A 404 handled like any other HTTP error: retried while attempts remain.
Get404Retried ==
  /\ pc = "get"
  /\ gets' = gets + 1
  /\ response' = [status |-> HTTP_NOT_FOUND, page |-> NoPage]
  /\ IF attempt < MAX_RETRIES - 1
     THEN /\ pc' = "retry_sleep"
          /\ UNCHANGED <<actual_title, paced, attempt>>
     ELSE Return(None)
  /\ UNCHANGED <<env, file, patents, i, verified_patents, result, exit_code,
                 llm_calls, fetched, retry_sleeps, h1_consulted, store_vars>>

\* GET answers 404: raise_for_status raises, the handler returns None.
Get404 ==
  /\ pc = "get"
  /\ gets' = gets + 1
  /\ response' = [status |-> HTTP_NOT_FOUND, page |-> NoPage]
  /\ Return(None)
  /\ UNCHANGED <<env, file, patents, i, verified_patents, result, exit_code,
                 llm_calls, fetched, retry_sleeps, h1_consulted, store_vars>>

\* The retry loop sleeping and going round once more after the last attempt.
GetErrorOffByOne ==
  /\ pc = "get"
  /\ gets' = gets + 1
  /\ \E st \in ErrorStatuses : response' = [status |-> st, page |-> NoPage]
  /\ IF attempt < MAX_RETRIES
     THEN /\ pc' = "retry_sleep"
          /\ UNCHANGED <<actual_title, paced, attempt>>
     ELSE Return(None)
  /\ UNCHANGED <<env, file, patents, i, verified_patents, result, exit_code,
                 llm_calls, fetched, retry_sleeps, h1_consulted, store_vars>>

\* GET fails otherwise (HTTP error status, timeout, parse exception): sleep
\* and go round again while attempts remain, else fall out of the loop.
GetError ==
  /\ pc = "get"
  /\ gets' = gets + 1
  /\ \E st \in ErrorStatuses : response' = [status |-> st, page |-> NoPage]
  /\ IF attempt < MAX_RETRIES - 1
     THEN /\ pc' = "retry_sleep"
          /\ UNCHANGED <<actual_title, paced, attempt>>
     ELSE Return(None)
  /\ UNCHANGED <<env, file, patents, i, verified_patents, result, exit_code,
                 llm_calls, fetched, retry_sleeps, h1_consulted, store_vars>>

\* time.sleep(1), then the next attempt
RetrySleep ==
  /\ pc = "retry_sleep"
  /\ retry_sleeps' = retry_sleeps + RETRY_SLEEP
  /\ attempt' = attempt + 1
  /\ pc' = "get"
  /\ UNCHANGED <<env, file, patents, i, verified_patents, result, exit_code,
                 llm_calls, fetched, response, actual_title, gets,
                 h1_consulted, paced, store_vars>>

\* GET answers 200: the page is parsed and a title looked for.
GetPage ==
  /\ pc = "get"
  /\ gets' = gets + 1
  /\ \E page \in Pages :
       /\ response' = [status |-> 200, page |-> page]
       /\ h1_consulted' = H1Consulted(page)
       /\ Return(ExtractTitle(page, patents[i].patent_id))
  /\ UNCHANGED <<env, file, patents, i, verified_patents, result, exit_code,
                 llm_calls, fetched, retry_sleeps, store_vars>>

\* ------------------------------------------------- verify_patents, the rest
\* _get_patent_title has returned: its frame, and the history of it, are gone.
FetchOver ==
  /\ attempt' = 0
  /\ response' = NoResponse
  /\ gets' = 0
  /\ retry_sleeps' = 0
  /\ h1_consulted' = FALSE
  /\ actual_title' = None

\* actual_title is None: "continue".
Skip ==
  /\ pc = "fetched"
  /\ ~actual_title.found
  /\ fetched' = Append(fetched, actual_title)
  /\ i' = i + 1
  /\ pc' = "loop"
  /\ FetchOver
  /\ UNCHANGED <<env, patents, verified_patents, result, exit_code,
                 llm_calls, paced, store_vars>>

\* A title came back: score it, build the record, keep it, save it.
Record ==
  /\ pc = "fetched"
  /\ actual_title.found
  /\ fetched' = Append(fetched, actual_title)
  /\ LET verified_patent == VerifiedPatent(patents[i], actual_title.text)
     IN /\ verified_patents' = Append(verified_patents, verified_patent)
        /\ save_calls' = Append(save_calls, verified_patent)
        /\ \E fault \in StoreFaults :
             LET raised == SaveRaised(file, verified_patent, fault, can_make_dir)
             IN /\ file' = _save_verified_patent(file, verified_patent, fault, can_make_dir)
                /\ last_fault' = IF ~raised THEN "none"
                                 ELSE IF can_make_dir THEN fault ELSE "path"
                /\ store_failed' = (store_failed \/ raised)
  /\ IF i < Len(patents)
     THEN pc' = "delay" /\ i' = i
     ELSE pc' = "loop" /\ i' = i + 1
  /\ FetchOver
  /\ UNCHANGED <<env, patents, result, exit_code, llm_calls, paced>>

\* time.sleep(Config.REQUEST_DELAY)
Delay ==
  /\ pc = "delay"
  /\ paced' = paced + REQUEST_DELAY
  /\ i' = i + 1
  /\ pc' = "loop"
  /\ last_fault' = "none"
  /\ UNCHANGED <<env, file, patents, verified_patents, result, exit_code,
                 llm_calls, fetched, fetch_vars, save_calls, store_failed>>

\* ------------------------------------------------ run_patent_search, the end
\* The results dict is built; Config.get_output_path runs os.makedirs again,
\* and an OSError there lands in "except Exception".
Finish ==
  /\ pc = "finish"
  /\ result' = IF can_make_dir
               THEN SuccessResult(patents, verified_patents)
               ELSE ErrorResult
  /\ pc' = "returned"
  /\ UNCHANGED <<env, patents, i, verified_patents, exit_code, llm_calls,
                 fetched, paced, fetch_vars, store_vars>>

\* main: sys.exit(0) on success, sys.exit(1) otherwise
Exit ==
  /\ pc = "returned"
  /\ exit_code' = IF result.success THEN 0 ELSE 1
  /\ pc' = "exited"
  /\ UNCHANGED <<env, patents, i, verified_patents, result, llm_calls,
                 fetched, paced, fetch_vars, store_vars>>

Next ==
  \/ ValidateFails
  \/ ValidateOk
  \/ SearchFails
  \/ SearchReturns
  \/ NextCandidate
  \/ LoopDone
  \/ Get404
  \/ GetError
  \/ RetrySleep
  \/ GetPage
  \/ Skip
  \/ Record
  \/ Delay
  \/ Finish
  \/ Exit

Spec == Init /\ [][Next]_vars

\* A step of _get_patent_title: a GET coming back, or the retry sleep ending.
FetchStep == Get404 \/ GetError \/ GetPage \/ RetrySleep

\* The same program with the fetch's blocking calls always returning: the GET
\* is bounded by REQUEST_TIMEOUT and time.sleep(1) ends.
FairSpec == Spec /\ WF_vars(FetchStep)

\* ============================================================== properties
Returned == pc \in {"returned", "exited"}

\* The records verify_patents builds for the candidates whose fetch returned a
\* title, in candidate order.
RECURSIVE RecordsOf(_, _)
RecordsOf(cands, outcomes) ==
  IF cands = <<>> \/ outcomes = <<>> THEN <<>>
  ELSE (IF outcomes[1].found
        THEN <<VerifiedPatent(cands[1], outcomes[1].text)>>
        ELSE <<>>)
       \o RecordsOf(Tail(cands), Tail(outcomes))

\* The candidates whose fetch returned a title, and where the record of
\* candidate k stands among the records built so far.
FoundIndexes == {k \in 1..Len(fetched) : fetched[k].found}
Position(k) == Cardinality({m \in FoundIndexes : m <= k})

IdsDistinct(entries) ==
  \A a, b \in 1..Len(entries) :
    a # b => entries[a].patent_id # entries[b].patent_id

C2_CountsAsClaimed ==
  (Returned /\ patents # <<>>) =>
    /\ result.patents_found = Len(patents)
    /\ result.patents_verified = Len(SelectSeq(fetched, LAMBDA t : t.found))
    /\ result.verified_patents = RecordsOf(patents, fetched)
    /\ save_calls = RecordsOf(patents, fetched)

\* ---- C3 ----------------------------------------------------------------
\* C3 as stated: every candidate whose fetch returned a title gets a record
\* with verified = (similarity >= threshold), is handed to the Store and kept
\* in the in-memory list whatever its score, and is counted in the returned
\* patents_verified; equal claimed and actual titles give verified = TRUE.
C3_RecordedAsClaimed ==
  (Returned /\ patents # <<>>) =>
    /\ \A k \in FoundIndexes :
         /\ Position(k) <= Len(verified_patents)
         /\ Position(k) <= Len(save_calls)
         /\ LET r == verified_patents[Position(k)]
            IN /\ r.patent_id = patents[k].patent_id
               /\ r.title = fetched[k].text
               /\ r.similarity_score = _calculate_similarity(patents[k].title, r.title)
               /\ r.verified = MeetsThreshold(r.similarity_score)
               /\ (patents[k].title = r.title => r.verified)
               /\ save_calls[Position(k)] = r
    /\ result.patents_verified = Cardinality(FoundIndexes)

\* ---- C4 ----------------------------------------------------------------
\* C4: the LLM is called at most once, and once the search is over exactly
\* once; when the Searcher's list is empty the run has fetched no title and
\* handed nothing to the Store, and returns a non-success result with zero
\* counts, an empty list and a message (not an error).
C4_EmptySearchEndsRun ==
  /\ llm_calls <= 1
  /\ (api_key /\ pc \notin {"validate", "search"}) => llm_calls = 1
  /\ (llm_calls = 1 /\ patents = <<>>) =>
       /\ Returned
       /\ fetched = <<>>
       /\ gets = 0
       /\ save_calls = <<>>
       /\ ~result.success
       /\ result.patents_found = 0
       /\ result.patents_verified = 0
       /\ result.verified_patents = <<>>
       /\ result.extra = "message"

\* The search came back empty and the process has exited with status 1.
C4_Witness ==
  /\ pc = "exited"
  /\ llm_calls = 1
  /\ patents = <<>>
  /\ result.extra = "message"
  /\ exit_code = 1

\* ---- C5 ----------------------------------------------------------------
\* C5: a GET answered 404 ends the fetch there and then: the fetch has
\* returned "not found", the 404 was its last GET, and no retry sleep followed
\* it, whatever the number of attempts left.
C5_NotFoundOn404 ==
  (response.status = HTTP_NOT_FOUND) =>
    /\ pc = "fetched"
    /\ ~actual_title.found
    /\ gets = attempt + 1
    /\ retry_sleeps = attempt * RETRY_SLEEP

\* A 404 on the second attempt, one attempt still in the budget.
C5_Witness ==
  /\ response.status = HTTP_NOT_FOUND
  /\ attempt = 1
  /\ attempt < MAX_RETRIES - 1
  /\ pc = "fetched"

\* ---- C6 ----------------------------------------------------------------
\* C6, the counts: a failed GET other than a 404 is followed by the 1-unit sleep and a
\* further GET while attempts remain; a fetch issues at most MAX_RETRIES GETs
\* and sleeps only between them; it returns "not found" after MAX_RETRIES
\* failures, without a sleep after the last; and every fetch returns.
C6_Safety ==
  /\ gets <= MAX_RETRIES
  /\ retry_sleeps <= (MAX_RETRIES - 1) * RETRY_SLEEP
  /\ (pc = "get" => gets = attempt /\ retry_sleeps = attempt * RETRY_SLEEP)
  /\ (pc = "retry_sleep" =>
        /\ response.status \in ErrorStatuses
        /\ attempt < MAX_RETRIES - 1
        /\ gets = attempt + 1
        /\ retry_sleeps = attempt * RETRY_SLEEP)
  /\ (pc = "fetched" => gets = attempt + 1 /\ retry_sleeps = attempt * RETRY_SLEEP)
  /\ (pc = "fetched" /\ response.status \in ErrorStatuses =>
        /\ gets = MAX_RETRIES
        /\ retry_sleeps = (MAX_RETRIES - 1) * RETRY_SLEEP
        /\ ~actual_title.found)
\* C6, the steps: a failure with attempts left goes to the sleep, the sleep to
\* the next GET.
C6_Steps ==
  /\ (pc = "get" /\ response'.status \in ErrorStatuses /\ attempt < MAX_RETRIES - 1
        => pc' = "retry_sleep")
  /\ (pc = "retry_sleep"
        => pc' = "get" /\ gets' = gets /\ retry_sleeps' = retry_sleeps + RETRY_SLEEP)
\* C6, whole: the counts above in every state, the retry steps above at every
\* step, and every fetch that has begun returns.
C6_RetryBudget ==
  /\ []C6_Safety
  /\ [][C6_Steps]_vars
  /\ ((pc = "get") ~> (pc = "fetched"))

\* Every attempt of a fetch failed: MAX_RETRIES GETs, a sleep between each two.
C6_Witness ==
  /\ pc = "fetched"
  /\ response.status \in ErrorStatuses
  /\ gets = MAX_RETRIES
  /\ retry_sleeps = (MAX_RETRIES - 1) * RETRY_SLEEP
  /\ ~actual_title.found

\* ---- C7 ----------------------------------------------------------------
\* C7 as stated: on a 200 response the h1 heading is looked for only when the
\* span is absent, and a span whose text fails the heuristics makes the fetch
\* return "not found" at once.
C7_HeadingOnlyWhenSpanAbsent ==
  (pc = "fetched" /\ response.status = 200) =>
    /\ (h1_consulted => ~response.page.has_span)
    /\ (response.page.has_span /\ ~_is_valid_title(strip(response.page.span))
          => ~actual_title.found)
    /\ gets = attempt + 1

\* C7 as amended: on a 200 response the h1 heading is looked for when the span
\* is absent or its text fails the heuristics; the fetch returns the span's
\* text if it is plausible, else the cleaned heading text if there is a heading
\* and that text is plausible, else "not found"; in each case the 200 response
\* was the fetch's last GET.
C7_HeadingWhenSpanUnusable ==
  (pc = "fetched" /\ response.status = 200) =>
    LET page == response.page
        span_ok == page.has_span /\ _is_valid_title(strip(page.span))
        h1_text == H1Title(page, patents[i].patent_id)
        h1_ok == page.has_h1 /\ _is_valid_title(h1_text)
    IN /\ (h1_consulted <=> ~span_ok)
       /\ (span_ok => actual_title = Some(strip(page.span)))
       /\ (~span_ok /\ h1_ok => actual_title = Some(h1_text))
       /\ (~span_ok /\ ~h1_ok => ~actual_title.found)
       /\ (actual_title.found => _is_valid_title(actual_title.text))
       /\ gets = attempt + 1

\* The span holds an abstract, the heading a plausible title: the fetch
\* returned the heading's title.
C7_Witness ==
  /\ pc = "fetched"
  /\ response.status = 200
  /\ response.page.has_span
  /\ ~_is_valid_title(strip(response.page.span))
  /\ h1_consulted
  /\ actual_title.found

\* ---- C8 ----------------------------------------------------------------
\* C8 as stated: when the fetch of any candidate but the first begins, the
\* inter-request delay has been slept since the fetch before it returned,
\* whatever that fetch returned; nothing is slept after the last candidate.
C8_DelayBetweenFetches ==
  /\ (pc = "get" /\ gets = 0 /\ i > 1) => paced = REQUEST_DELAY
  /\ (pc = "finish") => paced = 0

\* ---- C9 ----------------------------------------------------------------
\* C9 as stated: a run in which a save failed still processes every candidate,
\* keeps the record in the in-memory list, and returns a success result that
\* counts it.
C9_StoreFailureSwallowed ==
  (Returned /\ store_failed) =>
    /\ Len(fetched) = Len(patents)
    /\ verified_patents = save_calls
    /\ Len(verified_patents) = Cardinality(FoundIndexes)
    /\ result.success
    /\ result.patents_verified = Len(verified_patents)
    /\ result.verified_patents = verified_patents

\* ---- C10 ---------------------------------------------------------------
\* C10: without the credential the run ends at the configuration check: no LLM
\* call, no fetch, no save, a non-success result carrying the error, exit
\* status 1. In general the run always returns a result: an exception (the
\* configuration error, or the output directory failing to be created at the
\* end) gives a non-success result carrying the error, and the exit status is
\* 0 exactly for a success result.
C10_FailuresBecomeResults ==
  /\ pc # "raised"
  /\ (~api_key /\ pc # "validate") =>
       /\ Returned
       /\ llm_calls = 0
       /\ fetched = <<>>
       /\ gets = 0
       /\ save_calls = <<>>
       /\ result.extra = "error"
  /\ Returned =>
       /\ result.extra \in {"message", "error", "output_file"}
       /\ (result.extra = "error" <=> (~api_key \/ (patents # <<>> /\ ~can_make_dir)))
       /\ (result.extra = "error" =>
             /\ ~result.success
             /\ result.patents_found = 0
             /\ result.patents_verified = 0
             /\ result.verified_patents = <<>>)
       /\ (result.success <=> result.extra = "output_file")
  /\ (pc = "exited") => exit_code = (IF result.success THEN 0 ELSE 1)
  /\ (pc # "exited") => exit_code = -1

\* The credential is missing and the process has exited with status 1.
C10_Witness ==
  /\ ~api_key
  /\ pc = "exited"
  /\ exit_code = 1
  /\ result.extra = "error"

\* ---- what C2, C3 and C9 come to when the output directory can be created --
\* With os.makedirs succeeding, run_patent_search returns the counts and the
\* list that C2, C3 and C9 state: their failures all come from the OSError of
\* Config.get_output_path at the end of the run.
CountsHoldIfDirCreatable == can_make_dir => C2_CountsAsClaimed
RecordsHoldIfDirCreatable == can_make_dir => C3_RecordedAsClaimed
SwallowedIfDirCreatable == can_make_dir => C9_StoreFailureSwallowed

====
